---- MODULE Spec2Model ----
(***************************************************************************)
(* DahuaRpc2Client (custom_components/dahua/rpc2.py): the request layer,   *)
(* the two-phase login, logout and the typed operations, as a state        *)
(* machine over one client instance and the device it talks to.            *)
(*                                                                         *)
(* A coroutine runs without interruption between two awaits; the only      *)
(* await that suspends is the HTTP post inside request (line 66).  One     *)
(* step of the model is therefore either the start of an operation up to   *)
(* the first post, or the arrival of a response (or a failure) followed by*)
(* everything the code does until the next post or the operation's end.    *)
(***************************************************************************)
EXTENDS Integers, Sequences, FiniteSets, TLC

\* ------------------------------------------------------------------ bounds
\* An operation is started only while the requests it can send still fit.
MaxWire == 8
\* Operations invoked on the client in one behaviour.
MaxCalls == 2
\* Callers (asyncio tasks) that can hold an operation on the client.
NumTasks == 2

Tasks == 1..NumTasks
\* The callers of the non-overlapping use of the client.
SeqTasks == {1}

\* ------------------------------------------------------------- data domain
None == "None"
\* Session tokens the device issues (opaque, non-empty).
Tokens == {"S1", "S2"}
\* The "result" member of a decoded response: JSON true, false, no member
\* (or null), the number 1, the number 0.
Results == {"true", "false", "absent", "one", "zero"}

\* What comes back for one post: the transport fails, the body is not JSON
\* (under any HTTP status), or the body is a JSON object.
\* session = None: no "session" member.
\* params = "full": every member the operations read is there (realm, random,
\* time, sn, table.MachineName, status.Speaker, status.WhiteLight);
\* params = "none": no "params" member.
\* speaker, white_light: params.status.Speaker and params.status.WhiteLight.
NoResp ==
    [kind |-> "none", status |-> None, result |-> "absent", session |-> None,
     params |-> "none", speaker |-> None, white_light |-> None]
TransportFailure == [NoResp EXCEPT !.kind = "transport"]
NonJsonBody == [NoResp EXCEPT !.kind = "nonjson", !.status = "200"]
NonJsonError == [NoResp EXCEPT !.kind = "nonjson", !.status = "500"]
JsonResponses ==
    [kind : {"json"}, status : {"200"}, result : Results,
     session : Tokens \cup {None}, params : {"full"},
     speaker : {"On"}, white_light : {"Off"}]
    \cup
    [kind : {"json"}, status : {"200"}, result : Results,
     session : Tokens \cup {None}, params : {"none"},
     speaker : {None}, white_light : {None}]
Responses == {TransportFailure, NonJsonBody, NonJsonError} \cup JsonResponses

\* The answers of a device whose speaker and light take every state, with
\* the spellings a firmware may use.
StatusTexts == {"On", "Off", "on"}
StatusResponses ==
    {TransportFailure}
    \cup
    [kind : {"json"}, status : {"200"}, result : {"true", "absent"},
     session : {"S1"}, params : {"full"},
     speaker : StatusTexts, white_light : StatusTexts]

\* The credentials the client was built with (lines 37-38).
Username == "admin"
Password == "secret"

\* A Python string, as the sequence of its pieces; <<>> is "".
EmptyText == <<>>
\* A password member that is not there.
NoPassword == <<None>>

\* The device issues every session with its own realm and random:
\* r['params']['realm'] and r['params']['random'] of the challenge answer r.
Realm(r) == IF r.session = "S1" THEN "realm1" ELSE "realm2"
Random(r) == IF r.session = "S1" THEN "random1" ELSE "random2"

\* hashlib.md5(text.encode('utf-8')).hexdigest().upper(): a fixed function
\* of the text, kept as the term it is applied to.
Md5Hex(text) == <<"md5hex(">> \o text \o <<")">>

\* Mutant of PassHash: realm and random change places.
PassHashSwapped(username, password, realm, random) ==
    Md5Hex(<<username, ":", realm, ":">> \o Md5Hex(<<username, ":", random, ":", password>>))

\* Lines 106-109.
PassHash(username, password, realm, random) ==
    Md5Hex(<<username, ":", random, ":">> \o Md5Hex(<<username, ":", realm, ":", password>>))

\* The params argument of request: None, or the dict a caller builds.
NoParams == [params |-> None]
\* Lines 92-94.
ChallengeParams ==
    [userName |-> Username, password |-> EmptyText, clientType |-> "Dahua3.0-Web3.0"]
\* Lines 113-117.
HashParams(pass_hash) ==
    [userName |-> Username, password |-> pass_hash, clientType |-> "Dahua3.0-Web3.0",
     authorityType |-> "Default", passwordType |-> "Default"]
\* Line 171, the params a caller of get_config supplies.
ConfigParams == [name |-> "General"]
\* Line 179, for the channel the caller names.
ChannelParams == [channel |-> 1]
\* Line 188.
ControlParams ==
    [channel |-> 1, info |-> <<[Type |-> 1, IO |-> 1, TriggerMode |-> 2]>>]
\* The extra argument of request: None, or a dict.
NoExtra == [extra |-> None]

\* The public operations of the client.
Operations ==
    {"login", "logout", "current_time", "get_serial_number", "get_config",
     "get_device_name", "get_coaxial_control_io_status",
     "set_coaxial_control_io_status"}

\* The most requests one invocation of an operation sends.
Cost(op) ==
    CASE op = "login" -> 3
      [] op = "get_coaxial_control_io_status" -> 4
      [] op = "set_coaxial_control_io_status" -> 8
      [] OTHER -> 1

\* --------------------------------------------------------------- the state
VARIABLES
    id,          \* self._id
    session_id,  \* self._session_id (None or a token)
    logged_in,   \* self.logged_in
    wire,        \* the request envelopes posted so far, in send order, each
                 \*   with the token of the reply the client stored (line 99),
                 \*   the task that posted it and whether another task had an
                 \*   operation in progress then
    posted,      \* the body of the last post, and the extra it was built with
    stack,       \* per task: the frames awaiting, outermost first
    req,         \* per task: the request call in progress or last completed:
                 \*   verify_result, what it read of the answer, how it ended
    lg,          \* per task: the login call of the task's current operation:
                 \*   the answer to its hash-phase request, and how it ended
    ret,         \* per task: the operation in progress or last completed
    calls        \* operations invoked so far

vars == <<id, session_id, logged_in, wire, posted, stack, req, lg, ret, calls>>

\* The state as one value, so that the code's straight-line pieces compose.
Cur ==
    [id |-> id, session_id |-> session_id, logged_in |-> logged_in,
     wire |-> wire, posted |-> posted, stack |-> stack, req |-> req, lg |-> lg,
     ret |-> ret]

Becomes(s) ==
    /\ id' = s.id
    /\ session_id' = s.session_id
    /\ logged_in' = s.logged_in
    /\ wire' = s.wire
    /\ posted' = s.posted
    /\ stack' = s.stack
    /\ req' = s.req
    /\ lg' = s.lg
    /\ ret' = s.ret

NoReq ==
    [state |-> "none", verify |-> TRUE, at |-> 0, kind |-> "none",
     status |-> None, result |-> "absent", outcome |-> "none"]
NoPost == [extra |-> NoExtra, data |-> [method |-> None, id |-> 0]]
NoLogin ==
    [state |-> "none", was |-> FALSE,
     r |-> [kind |-> "none", session |-> None, params |-> "none"],
     response |-> NoResp, outcome |-> "none", value |-> NoResp]
\* first: where on the wire the operation's first request is.
\* speaker, white_light: the fields of a returned CoaxialControlIOStatus
\* (lines 17-18); resp: the response returned, or its api_response.
NoRet ==
    [op |-> "none", first |-> 0, kind |-> "none", val |-> "none", resp |-> NoResp,
     speaker |-> FALSE, white_light |-> FALSE]

Init ==
    /\ id = 0
    /\ session_id = None
    /\ logged_in = FALSE
    /\ wire = <<>>
    /\ posted = NoPost
    /\ stack = [t \in Tasks |-> <<>>]
    /\ req = [t \in Tasks |-> NoReq]
    /\ lg = [t \in Tasks |-> NoLogin]
    /\ ret = [t \in Tasks |-> NoRet]
    /\ calls = 0

\* ------------------------------------------------------------ python tests
\* `if self._session_id:`
Truthy(tok) == tok \notin {None, ""}
\* Mutant of IsFalse: `not resp_json.get('result')`.
IsFalsy(result) == result \in {"false", "absent", "zero"}

\* `resp_json.get('result') is False`
IsFalse(result) == result = "false"
\* Mutant of IsTrue: `response.get('result')` taken for its truth.
IsTruthy(result) == result \in {"true", "one"}

\* `response.get('result') is True`
IsTrue(result) == result = "true"
\* `response.get("result") == True` (1 == True in Python)
EqualsTrue(result) == result \in {"true", "one"}

Top(st) == st[Len(st)]
Pop(st) == SubSeq(st, 1, Len(st) - 1)
Push(s, t, frame) == [s EXCEPT !.stack[t] = Append(@, frame)]
Replace(s, t, frame) == [s EXCEPT !.stack[t] = Append(Pop(@), frame)]

\* ----------------------------------------------------------------- request
\* dict[key] = value, and dict.update(other).
Put(d, key, value) == [k \in DOMAIN d \cup {key} |-> IF k = key THEN value ELSE d[k]]
Update(d, other) ==
    [k \in DOMAIN d \cup DOMAIN other |-> IF k \in DOMAIN other THEN other[k] ELSE d[k]]

\* Lines 51-59: the body of the post.
Data(s, method, params, object_id, extra) ==
    LET d1 == [method |-> method, id |-> s.id]
        d2 == IF params # NoParams THEN Put(d1, "params", params) ELSE d1
        d3 == IF Truthy(object_id) THEN Put(d2, "object", object_id) ELSE d2
        d4 == IF extra # NoExtra THEN Update(d3, extra) ELSE d3
    IN  IF Truthy(s.session_id) THEN Put(d4, "session", s.session_id) ELSE d4

\* The members of a body that the session protocol is about: method, id,
\* params.password and session (None: the body has no such member).
Envelope(d) ==
    [method |-> d.method, id |-> d.id,
     password |-> IF "params" \in DOMAIN d /\ "password" \in DOMAIN d.params
                      THEN d.params.password ELSE NoPassword,
     session |-> IF "session" \in DOMAIN d THEN d.session ELSE None]

\* Some task other than t has an operation in progress.
Overlapping(s, t) == \E u \in Tasks \ {t} : s.stack[u] # <<>>

\* The envelope on the wire, no reply to it stored yet.
Posted(s, t, e) ==
    [f \in DOMAIN e \cup {"reply", "by", "overlap"} |->
        CASE f = "reply" -> None
          [] f = "by" -> t
          [] f = "overlap" -> Overlapping(s, t)
          [] OTHER -> e[f]]

\* Mutant of Counted: the counter moves by 2.
CountedTwice(s) == [s EXCEPT !.id = @ + 2]

\* Mutant of Counted: `self._id =+ 1`.
CountedAssignsOne(s) == [s EXCEPT !.id = 1]

\* Line 50.
Counted(s) == [s EXCEPT !.id = @ + 1]

\* Lines 50-66: count the call, build the body, post it, await.
RequestWith(s, t, method, params, object_id, extra, verify) ==
    LET c == Counted(s)
        d == Data(c, method, params, object_id, extra)
    IN  [c EXCEPT !.wire = Append(@, Posted(c, t, Envelope(d))),
                  !.posted = [extra |-> extra, data |-> d],
                  !.req[t] = [NoReq EXCEPT !.state = "pending", !.verify = verify,
                                           !.at = Len(c.wire) + 1,
                                           !.outcome = "pending"]]

\* request as the operations of the client call it: no object, no extra.
Request(s, t, method, params, verify) ==
    RequestWith(s, t, method, params, None, NoExtra, verify)

\* Mutant of RequestOutcome: an HTTP error status raises before the body is
\* decoded (raise_for_status).
RequestOutcomeChecksStatus(verify, resp) ==
    CASE resp.kind = "transport" -> "ClientError"
      [] resp.status = "500" -> "ClientError"
      [] resp.kind = "nonjson" -> "ValueError"
      [] verify /\ IsFalse(resp.result) -> "ConnectionError"
      [] OTHER -> "return"

\* Lines 66-83: how the awaited post ends for the caller of request.
RequestOutcome(verify, resp) ==
    CASE resp.kind = "transport" -> "ClientError"
      [] resp.kind = "nonjson" -> "ValueError"
      [] verify /\ IsFalse(resp.result) -> "ConnectionError"
      [] OTHER -> "return"

\* ------------------------------------------------------ ends of operations
Finish(s, t, kind, val, resp) ==
    [s EXCEPT !.stack[t] = <<>>,
              !.ret[t] = [NoRet EXCEPT !.op = s.ret[t].op,
                                       !.first = s.ret[t].first, !.kind = kind,
                                       !.val = val, !.resp = resp]]

InLogin(st) == \E i \in 1..Len(st) : st[i] \in {"login@96", "login@119", "login@125"}

LoginEnds(s, t, outcome, value) ==
    [s EXCEPT !.lg[t] = [@ EXCEPT !.state = "done", !.outcome = outcome,
                                  !.value = value]]

\* Mutant of Raise: every operation swallows the failure as logout does.
RaiseSwallowed(s, t, exc) ==
    LET s1 == IF InLogin(s.stack[t]) THEN LoginEnds(s, t, exc, NoResp) ELSE s
    IN  Finish(s1, t, "return", "False", NoResp)

\* An exception leaves every frame of the task; only logout catches it
\* (lines 143-145).
Raise(s, t, exc) ==
    LET st == s.stack[t]
        s1 == IF InLogin(st) THEN LoginEnds(s, t, exc, NoResp) ELSE s
    IN  IF st[1] = "logout@135"
            THEN Finish(s1, t, "return", "False", NoResp)
            ELSE Finish(s1, t, "raise", exc, NoResp)

\* ------------------------------------------------------------------- login
\* Mutant of LoginReset: the counter restarts at 1.
LoginResetToOne(s) == [s EXCEPT !.session_id = None, !.id = 1]

\* Mutant of LoginReset: the token of the previous session is kept.
LoginResetKeepsToken(s) == [s EXCEPT !.id = 0]

\* Lines 88-96: forget the session, restart the counter, post the challenge.
LoginReset(s) == [s EXCEPT !.session_id = None, !.id = 0]

LoginBegin(s, t) ==
    LET s1 == Push(LoginReset(s), t, "login@96")
        s2 == [s1 EXCEPT !.lg[t] = [NoLogin EXCEPT !.state = "running",
                                                  !.was = s.logged_in,
                                                  !.outcome = "running"]]
    IN  Request(s2, t, "global.login", ChallengeParams, FALSE)

\* Line 150, entered from an operation or from line 125.
CurrentTimeBegin(s, t) ==
    Request(Push(s, t, "current_time@150"), t, "global.getCurrentTime", NoParams, TRUE)

\* login returns `value` (a response, or NoResp for False) to its caller.
LoginReturns(s, t, val, value) ==
    LET s1 == LoginEnds([s EXCEPT !.stack[t] = Pop(@)], t, "return", value)
        st == s1.stack[t]
    IN  IF st = <<>> THEN Finish(s1, t, "return", val, value)
        ELSE IF Top(st) = "get_coaxial_control_io_status@177"
            THEN Request(Replace(s1, t, "get_coaxial_control_io_status@179"), t,
                         "CoaxialControlIO.getStatus", ChannelParams, TRUE)
        ELSE Request(Replace(s1, t, "set_coaxial_control_io_status@188"), t,
                     "CoaxialControlIO.control", ControlParams, TRUE)

\* Mutant of AfterChallenge: the token is stored after the digest is posted.
AfterChallengeStoresLate(s, t, r) ==
    IF r.session = None THEN Raise(s, t, "KeyError")
    ELSE IF r.params = "none" THEN Raise([s EXCEPT !.session_id = r.session], t, "KeyError")
    ELSE LET s1 == Request(Replace(s, t, "login@119"), t, "global.login",
                           HashParams(PassHash(Username, Password, Realm(r), Random(r))),
                           TRUE)
         IN  [s1 EXCEPT !.session_id = r.session]

\* Mutant of AfterChallenge: an answer without params still gets a digest.
AfterChallengeLenient(s, t, r) ==
    IF r.session = None THEN Raise(s, t, "KeyError")
    ELSE LET s1 == [s EXCEPT !.session_id = r.session]
         IN  Request(Replace(s1, t, "login@119"), t, "global.login",
                     HashParams(PassHash(Username, Password, Realm(r), Random(r))),
                     TRUE)

\* Lines 97-119: store the token, read realm and random, post the digest.
AfterChallenge(s, t, r) ==
    IF r.session = None THEN Raise(s, t, "KeyError")
    ELSE LET s1 == [s EXCEPT !.session_id = r.session]
         IN  IF r.params = "none" THEN Raise(s1, t, "KeyError")
             ELSE Request(Replace(s1, t, "login@119"), t, "global.login",
                          HashParams(PassHash(Username, Password, Realm(r), Random(r))),
                          TRUE)

\* Lines 120-129.
AfterHash(s, t, response) ==
    IF EqualsTrue(response.result)
        THEN CurrentTimeBegin(Replace([s EXCEPT !.logged_in = TRUE], t, "login@125"), t)
        ELSE LoginReturns(s, t, "False", NoResp)

\* -------------------------------------------------------- typed operations
\* Mutant of CoaxialStatusBegin: a client already logged in is not logged in
\* again.
CoaxialStatusBeginLazy(s, t) ==
    IF s.logged_in
        THEN Request(Push(s, t, "get_coaxial_control_io_status@179"), t,
                     "CoaxialControlIO.getStatus", ChannelParams, TRUE)
        ELSE LoginBegin(Push(s, t, "get_coaxial_control_io_status@177"), t)

\* Lines 177-179: get_coaxial_control_io_status logs in before anything else.
CoaxialStatusBegin(s, t) ==
    LoginBegin(Push(s, t, "get_coaxial_control_io_status@177"), t)

\* Mutant of CoaxialControlIOStatus: both fields read Speaker.
CoaxialControlIOStatusSpeakerTwice(api_response) ==
    [speaker |-> api_response.speaker = "On",
     white_light |-> api_response.speaker = "On",
     api_response |-> api_response]

\* Lines 15-24, for an api_response that has params.status.
CoaxialControlIOStatus(api_response) ==
    [speaker |-> api_response.speaker = "On",
     white_light |-> api_response.white_light = "On",
     api_response |-> api_response]

\* get_coaxial_control_io_status returns (line 181) to its caller, which
\* when it is set_coaxial_control_io_status returns the same (line 190).
StatusReturns(s, t, response) ==
    IF response.params = "none" THEN Raise(s, t, "KeyError")
    ELSE LET status == CoaxialControlIOStatus(response)
         IN  [Finish(s, t, "return", "status", status.api_response)
                 EXCEPT !.ret[t].speaker = status.speaker,
                        !.ret[t].white_light = status.white_light]

\* Mutant of LogoutReturns: a logout the device accepted forgets the session.
LogoutReturnsForgets(s, t, response) ==
    IF IsTrue(response.result)
        THEN Finish([s EXCEPT !.session_id = None, !.logged_in = FALSE], t,
                    "return", "True", NoResp)
        ELSE Finish(s, t, "return", "False", NoResp)

\* Lines 139-142: True or False is returned and nothing of the client is
\* written.
LogoutReturns(s, t, response) ==
    Finish(s, t, "return", IF IsTrue(response.result) THEN "True" ELSE "False", NoResp)

\* Mutant of AfterControl: the status is decoded from the control response.
AfterControlDecodes(s, t, response) == StatusReturns(s, t, response)

\* Lines 189-190: the control response is dropped and the status fetched.
AfterControl(s, t, response) ==
    CoaxialStatusBegin(Replace(s, t, "set_coaxial_control_io_status@190"), t)

\* The frame on top of the stack goes on with the response its request
\* returned.
Resume(s, t, response) ==
    LET top == Top(s.stack[t])
        below == Pop(s.stack[t])
    IN  CASE top = "login@96" -> AfterChallenge(s, t, response)
          [] top = "login@119" -> AfterHash(s, t, response)
          [] top = "current_time@150" ->
                IF response.params = "none" THEN Raise(s, t, "KeyError")
                ELSE IF below = <<>> THEN Finish(s, t, "return", "time", NoResp)
                ELSE LoginReturns([s EXCEPT !.stack[t] = below], t, "response",
                                  s.lg[t].response)
          [] top = "get_serial_number@157" ->
                IF response.params = "none" THEN Raise(s, t, "KeyError")
                ELSE Finish(s, t, "return", "sn", NoResp)
          [] top = "get_config@164" ->
                IF response.params = "none" THEN Raise(s, t, "KeyError")
                ELSE IF below = <<>> THEN Finish(s, t, "return", "params", NoResp)
                ELSE Finish(s, t, "return", "MachineName", NoResp)
          [] top = "logout@135" -> LogoutReturns(s, t, response)
          [] top = "get_coaxial_control_io_status@179" ->
                StatusReturns(s, t, response)
          [] top = "request@66" -> Finish(s, t, "return", "response", response)
          [] top = "set_coaxial_control_io_status@188" -> AfterControl(s, t, response)

\* The operation runs up to its first post.
Begin(s, t, op) ==
    LET s1 == [s EXCEPT !.ret[t] = [NoRet EXCEPT !.op = op, !.kind = "running",
                                                 !.first = Len(s.wire) + 1],
                        !.lg[t] = NoLogin]
    IN  CASE op = "login" -> LoginBegin(s1, t)
          [] op = "logout" ->
                Request(Push(s1, t, "logout@135"), t, "global.logout", NoParams, TRUE)
          [] op = "current_time" -> CurrentTimeBegin(s1, t)
          [] op = "get_serial_number" ->
                Request(Push(s1, t, "get_serial_number@157"), t,
                        "magicBox.getSerialNo", NoParams, TRUE)
          [] op = "get_config" ->
                Request(Push(s1, t, "get_config@164"), t,
                        "configManager.getConfig", ConfigParams, TRUE)
          [] op = "get_device_name" ->
                Request(Push(Push(s1, t, "get_device_name@171"), t, "get_config@164"),
                        t, "configManager.getConfig", ConfigParams, TRUE)
          [] op = "get_coaxial_control_io_status" -> CoaxialStatusBegin(s1, t)
          [] op = "set_coaxial_control_io_status" ->
                LoginBegin(Push(s1, t, "set_coaxial_control_io_status@186"), t)

\* The post of task t ends with resp: request returns or raises (lines
\* 66-83), and the task runs on to its next post or to the operation's end.
Delivered(s, t, resp) ==
    LET verify == s.req[t].verify
        at == s.req[t].at
        outcome == RequestOutcome(verify, resp)
        top == Top(s.stack[t])
        s1 == [s EXCEPT !.req[t] = [state |-> "done", verify |-> verify, at |-> at,
                                    kind |-> resp.kind, status |-> resp.status,
                                    result |-> resp.result,
                                    outcome |-> outcome],
                        !.wire[at].reply =
                            IF top = "login@96" /\ resp.kind = "json"
                                THEN resp.session ELSE @,
                        !.lg[t].r =
                            IF top = "login@96"
                                THEN [kind |-> resp.kind, session |-> resp.session,
                                      params |-> resp.params]
                                ELSE @,
                        !.lg[t].response = IF top = "login@119" THEN resp ELSE @]
    IN  IF outcome = "return" THEN Resume(s1, t, resp) ELSE Raise(s1, t, outcome)

\* ----------------------------------------------------------------- actions
Idle(t) == stack[t] = <<>>

\* A caller invokes an operation while no other operation is in progress.
Call(t, op) ==
    /\ \A u \in Tasks : Idle(u)
    /\ calls < MaxCalls
    /\ Len(wire) + Cost(op) <= MaxWire
    /\ calls' = calls + 1
    /\ Becomes(Begin(Cur, t, op))

\* The device (or the network) answers the post task t awaits.
Receive(t, resp) ==
    /\ ~Idle(t)
    /\ req[t].state = "pending"
    /\ UNCHANGED calls
    /\ Becomes(Delivered(Cur, t, resp))

\* A caller invokes request itself, with arguments of its own.
BeginRequest(s, t, method, params, object_id, extra, verify) ==
    LET s1 == [s EXCEPT !.ret[t] = [NoRet EXCEPT !.op = "request", !.kind = "running",
                                                 !.first = Len(s.wire) + 1],
                        !.lg[t] = NoLogin]
    IN  RequestWith(Push(s1, t, "request@66"), t, method, params, object_id, extra,
                    verify)

\* Arguments for a direct call of request.
DirectMethods == {"magicBox.getDeviceType"}
DirectParams == {NoParams, ConfigParams}
DirectObjects == {None, "object1"}
DirectExtras ==
    {NoExtra,
     [session |-> "S9"],
     [method |-> "magicBox.reboot", id |-> 99],
     [params |-> ChannelParams, object |-> "object2"]}

CallRequest(t, method, params, object_id, extra, verify) ==
    /\ \A u \in Tasks : Idle(u)
    /\ calls < MaxCalls
    /\ Len(wire) + 1 <= MaxWire
    /\ calls' = calls + 1
    /\ Becomes(BeginRequest(Cur, t, method, params, object_id, extra, verify))

Next ==
    \/ \E t \in SeqTasks, op \in Operations : Call(t, op)
    \/ \E t \in SeqTasks, resp \in Responses : Receive(t, resp)

Spec == Init /\ [][Next]_vars

\* The coaxial operations against a device in every speaker/light state.
NextStatus ==
    \/ \E t \in SeqTasks :
          \E op \in {"get_coaxial_control_io_status", "set_coaxial_control_io_status"} :
            Call(t, op)
    \/ \E t \in SeqTasks, resp \in StatusResponses : Receive(t, resp)

SpecStatus == Init /\ [][NextStatus]_vars

\* The client used through its operations and through request itself.
NextDirect ==
    \/ Next
    \/ \E t \in SeqTasks, method \in DirectMethods, params \in DirectParams,
          object_id \in DirectObjects, extra \in DirectExtras, verify \in BOOLEAN :
            CallRequest(t, method, params, object_id, extra, verify)

SpecDirect == Init /\ [][NextDirect]_vars

\* Two callers share the client: an operation may begin while another one
\* awaits a response (nothing in the client serialises them).
\* The most requests the overlapping callers send between them.
MaxOverlapWire == 6
OverlapTasks == {1, 2}
OverlapOperations == {"login", "get_coaxial_control_io_status"}
OverlapResponses ==
    {TransportFailure}
    \cup
    [kind : {"json"}, status : {"200"}, result : {"true", "false"},
     session : Tokens, params : {"full"}, speaker : {"On"}, white_light : {"Off"}]

\* A caller invokes an operation, whatever the other callers are doing.
CallOverlap(t, op) ==
    /\ Idle(t)
    /\ calls < MaxCalls
    /\ Len(wire) < MaxOverlapWire
    /\ calls' = calls + 1
    /\ Becomes(Begin(Cur, t, op))

\* An answer reaches the post task t awaits, in any order among the tasks.
ReceiveOverlap(t, resp) ==
    /\ Len(wire) < MaxOverlapWire
    /\ Receive(t, resp)

NextOverlap ==
    \/ \E t \in OverlapTasks, op \in OverlapOperations : CallOverlap(t, op)
    \/ \E t \in OverlapTasks, resp \in OverlapResponses : ReceiveOverlap(t, resp)

SpecOverlap == Init /\ [][NextOverlap]_vars

\* ------------------------------------------------------------------ claims
IsChallenge(e) == e.method = "global.login" /\ e.password = EmptyText
IsHashPhase(e) == e.method = "global.login" /\ e.password # EmptyText
Sent == 1..Len(wire)

\* C1: each request carries an id 1 greater than the request sent before it,
\* whatever came back for that one, except that the challenge of every login
\* attempt (and the first request of the client) carries 1; the counter is
\* the id of the request sent last.
C1_IdsCountRequests ==
    /\ \A i \in Sent :
          wire[i].id = IF i = 1 \/ IsChallenge(wire[i]) THEN 1 ELSE wire[i - 1].id + 1
    /\ wire # <<>> => id = wire[Len(wire)].id

\* A login attempt began after three requests, one operation has failed, and
\* requests followed the challenge.
C1_Witness ==
    /\ \E i \in Sent :
          /\ i > 1 /\ IsChallenge(wire[i]) /\ wire[i - 1].id = 3
          /\ i + 1 \in Sent /\ wire[i + 1].id = 2
    /\ ret[1].kind = "raise"

C3_OnlyLoginWhileLoggedOut ==
    \A t \in Tasks :
        req[t].state = "pending" /\ wire[req[t].at].method # "global.login"
            => logged_in

\* C4 as stated: a login whose hash-phase answer has a result other than
\* true returns False; it does not raise.
C4_SoftLoginFailure ==
    \A t \in Tasks :
        /\ lg[t].state = "done"
        /\ lg[t].response.kind = "json"
        /\ lg[t].response.result # "true"
        => lg[t].outcome = "return" /\ lg[t].value = NoResp

\* C5 as stated: after a login attempt whose hash-phase answer does not have
\* result true, or that failed before the answer, logged_in is false.
C5_FailedLoginLoggedOut ==
    \A t \in Tasks :
        /\ lg[t].state = "done"
        /\ ~(lg[t].response.kind = "json" /\ lg[t].response.result = "true")
        => ~logged_in

\* C6 as stated: when the hash-phase answer has result true, login sets
\* logged_in and returns that answer, whatever else comes back.
C6_LoginReturnsHashResponse ==
    \A t \in Tasks :
        /\ lg[t].state = "done"
        /\ lg[t].response.kind = "json"
        /\ lg[t].response.result = "true"
        => logged_in /\ lg[t].outcome = "return" /\ lg[t].value = lg[t].response

\* The challenge that opened the login attempt request i belongs to (0: none).
LatestChallenge(i) ==
    LET before == {j \in 1..i : IsChallenge(wire[j])}
    IN  IF before = {} THEN 0 ELSE CHOOSE j \in before : \A k \in before : k <= j

\* C7: a challenge carries no session member; every other request of a login
\* attempt, and every request after it until the next attempt, carries the
\* token of the answer to that attempt's challenge (none when no answer with
\* a token came).
C7_SessionFollowsChallenge ==
    \A i \in Sent :
        LET c == LatestChallenge(i)
        IN  /\ c = i => wire[i].session = None
            /\ c # 0 /\ c < i => wire[i].session = wire[c].reply

\* A login attempt began while a token was held, its challenge was answered
\* with another token, and its hash-phase request and a later request carry
\* the new token.
C7_Witness ==
    \E c \in Sent :
        /\ c > 1 /\ IsChallenge(wire[c])
        /\ wire[c - 1].session \in Tokens
        /\ wire[c].reply \in Tokens \ {wire[c - 1].session}
        /\ c + 2 \in Sent
        /\ wire[c + 2].session = wire[c].reply

\* C8 as stated: no two requests of the client carry the same id.
C8_IdsUnique ==
    \A i, j \in Sent : i < j => wire[i].id # wire[j].id

\* C8 amended: no two requests carry the same id unless a login attempt
\* began after the first of them was sent.
C8_IdsUniqueBetweenLogins ==
    \A i, j \in Sent :
        i < j /\ (\A k \in (i + 1)..j : ~IsChallenge(wire[k]))
            => wire[i].id # wire[j].id

\* Two requests carry the same id across the start of a login attempt, and
\* three requests were sent with no attempt beginning between them.
C8_Witness ==
    /\ \E i, j \in Sent : i < j /\ wire[i].id = wire[j].id
    /\ \E i \in Sent :
          /\ i + 2 \in Sent
          /\ \A k \in (i + 1)..(i + 2) : ~IsChallenge(wire[k])

\* C9: a request call ends with ConnectionError (the ApiCallError of the
\* specification) exactly when verify_result is set and the decoded answer's
\* result is false; every other decoded answer is returned, also the one
\* with result false when verify_result is off.
C9_ResultVerification ==
    \A t \in Tasks :
        req[t].state = "done" =>
            LET refused == /\ req[t].verify
                           /\ req[t].kind = "json"
                           /\ req[t].result = "false"
            IN  /\ req[t].outcome = "ConnectionError" <=> refused
                /\ req[t].kind = "json" /\ ~refused => req[t].outcome = "return"

\* A request sent with verify_result off was answered result false and
\* returned that answer.
C9_Witness ==
    /\ req[1].state = "done"
    /\ ~req[1].verify
    /\ req[1].kind = "json"
    /\ req[1].result = "false"
    /\ req[1].outcome = "return"

\* C10: logout ends by returning True or False, never by raising; it returns
\* True exactly when its request returned an answer whose result is true.
C10_LogoutReturnsBool ==
    \A t \in Tasks :
        ret[t].op = "logout" /\ ret[t].kind # "running" =>
            /\ ret[t].kind = "return"
            /\ ret[t].val \in {"True", "False"}
            /\ ret[t].val = "True" <=>
                  /\ req[t].outcome = "return"
                  /\ req[t].kind = "json"
                  /\ req[t].result = "true"

\* logout on a logged-in client returned False after its post failed.
C10_Witness ==
    /\ ret[1].op = "logout"
    /\ ret[1].kind = "return"
    /\ ret[1].val = "False"
    /\ req[1].kind = "transport"
    /\ logged_in

\* C11: a body that is not JSON makes the request call end with ValueError
\* (the DecodeError of the specification) under every HTTP status and for
\* either verify_result; no other answer does, so it is never the
\* ConnectionError of a result-false answer.
C11_NonJsonIsDecodeError ==
    \A t \in Tasks :
        req[t].state = "done" =>
            /\ req[t].kind = "nonjson" <=> req[t].outcome = "ValueError"
            /\ req[t].kind = "nonjson" => req[t].outcome # "ConnectionError"

\* A challenge (verify_result off) answered with an HTTP error page.
C11_Witness ==
    /\ req[1].state = "done"
    /\ ~req[1].verify
    /\ req[1].kind = "nonjson"
    /\ req[1].status = "500"
    /\ req[1].outcome = "ValueError"

\* C12: in every operation but logout, a request that fails is the last the
\* operation sends (it is not sent again and nothing follows it), and the
\* operation ends by raising that request's error.
C12_FailsAtOnce ==
    \A t \in Tasks :
        /\ ret[t].op \notin {"none", "logout"}
        /\ req[t].state = "done"
        /\ req[t].outcome # "return"
        => /\ stack[t] = <<>>
           /\ ret[t].kind = "raise"
           /\ ret[t].val = req[t].outcome
           /\ req[t].at = Len(wire)

\* set_coaxial_control_io_status whose control request was refused: no
\* status fetch follows.
C12_Witness ==
    /\ ret[1].op = "set_coaxial_control_io_status"
    /\ ret[1].kind = "raise"
    /\ ret[1].val = "ConnectionError"
    /\ wire[Len(wire)].method = "CoaxialControlIO.control"

\* upperHex(MD5(username:random:upperHex(MD5(username:realm:password)))) for
\* the realm and random that come with token tok.
ExpectedPassHash(tok) ==
    LET realm == IF tok = "S1" THEN "realm1" ELSE "realm2"
        random == IF tok = "S1" THEN "random1" ELSE "random2"
    IN  <<"md5hex(", Username, ":", random, ":",
          "md5hex(", Username, ":", realm, ":", Password, ")", ")">>

\* C14: the first global.login request of an attempt (id 1) carries the empty
\* password; the second carries the digest of the realm and random of the
\* answer to that first request; the password itself is in no envelope
\* other than inside a digest.
C14_LoginDigest ==
    \A i \in Sent :
        /\ wire[i].method = "global.login" =>
              \/ wire[i].id = 1 /\ wire[i].password = EmptyText
              \/ /\ wire[i].id = 2 /\ i > 1
                 /\ wire[i - 1].method = "global.login" /\ wire[i - 1].id = 1
                 /\ wire[i - 1].reply \in Tokens
                 /\ wire[i].password = ExpectedPassHash(wire[i - 1].reply)
        /\ wire[i].password # <<Password>>
        /\ \/ wire[i].password \in {EmptyText, NoPassword}
           \/ wire[i].password[1] = "md5hex("
        /\ Password \notin {wire[i].method, wire[i].session}

\* Two login attempts whose challenges were answered with different realms
\* and randoms have sent their digests.
C14_Witness ==
    \E i, j \in Sent :
        /\ i > 1 /\ j > 1
        /\ IsHashPhase(wire[i]) /\ wire[i - 1].reply = "S1"
        /\ IsHashPhase(wire[j]) /\ wire[j - 1].reply = "S2"

\* C15 as stated: every key of extra is sent with extra's value, whatever
\* token the client holds.
C15_ExtraOverridesAll ==
    posted.extra # NoExtra =>
        \A k \in DOMAIN posted.extra : posted.data[k] = posted.extra[k]

\* C16: a returned status has speaker true exactly when Speaker of its
\* api_response is "On", and white_light true exactly when WhiteLight is
\* "On", each whatever the other is.
C16_StatusDecoding ==
    \A t \in Tasks :
        ret[t].kind = "return" /\ ret[t].val = "status" =>
            /\ ret[t].speaker <=> ret[t].resp.speaker = "On"
            /\ ret[t].white_light <=> ret[t].resp.white_light = "On"

\* A status decoded from Speaker "on" (not "On") and WhiteLight "On".
C16_Witness ==
    /\ ret[1].kind = "return" /\ ret[1].val = "status"
    /\ ret[1].resp.speaker = "on" /\ ~ret[1].speaker
    /\ ret[1].resp.white_light = "On" /\ ret[1].white_light

\* The methods of the requests first..last of the wire, in send order.
MethodsSent(first, last) ==
    [i \in 1..(last - first + 1) |-> wire[first + i - 1].method]

\* The requests of one login attempt: challenge, hash phase and, after a
\* successful hash phase, login's time request.
LoginMethods ==
    {<<"global.login", "global.login">>,
     <<"global.login", "global.login", "global.getCurrentTime">>}

\* C17: a set_coaxial_control_io_status that returns has sent, in this order
\* and nothing else, a login attempt, one control request, a second login
\* attempt and one getStatus request; what it returns is a status whose
\* api_response is the answer to that getStatus request, the last request
\* sent.
C17_ControlThenFetch ==
    \A t \in Tasks :
        ret[t].op = "set_coaxial_control_io_status" /\ ret[t].kind = "return" =>
            /\ MethodsSent(ret[t].first, Len(wire)) \in
                  {l1 \o <<"CoaxialControlIO.control">> \o l2
                      \o <<"CoaxialControlIO.getStatus">> :
                        l1 \in LoginMethods, l2 \in LoginMethods}
            /\ IsChallenge(wire[ret[t].first])
            /\ ret[t].val = "status"
            /\ req[t].at = Len(wire)
            /\ ret[t].resp.kind = "json"
            /\ ret[t].resp.result = req[t].result

\* set_coaxial_control_io_status returned after both of its logins succeeded
\* and its control request and its getStatus request were answered with
\* different results.
C17_Witness ==
    /\ ret[1].op = "set_coaxial_control_io_status"
    /\ ret[1].kind = "return"
    /\ Len(wire) = ret[1].first + 7
    /\ ret[1].resp.result = "absent"

\* C18: a login whose challenge answer is JSON without session, or without
\* params (realm and random), ends with a KeyError, which is none of the
\* errors of a refused call (ConnectionError), a non-JSON body (ValueError)
\* or a failed post (ClientError); the operation raises it, the challenge is
\* the last request sent, and logged_in is what it was when login began.
C18_ChallengeLacksFields ==
    \A t \in Tasks :
        /\ lg[t].r.kind = "json"
        /\ lg[t].r.session = None \/ lg[t].r.params = "none"
        => /\ lg[t].outcome = "KeyError"
           /\ ret[t].kind = "raise"
           /\ ret[t].val = "KeyError"
           /\ ret[t].val \notin {"ConnectionError", "ValueError", "ClientError"}
           /\ req[t].at = Len(wire)
           /\ IsChallenge(wire[Len(wire)])
           /\ logged_in = lg[t].was

\* A client already logged in began a login whose challenge answer carried a
\* session but no params.
C18_Witness ==
    /\ lg[1].r.kind = "json"
    /\ lg[1].r.session \in Tokens
    /\ lg[1].r.params = "none"
    /\ lg[1].was
    /\ ret[1].kind = "raise"

\* C20: no step takes logged_in from true to false, and every step of a
\* logout leaves logged_in and the stored token as they are; the step that
\* posts its request adds 1 to the counter and the step that takes the answer
\* leaves the counter alone.
C20_LogoutKeepsSession ==
    [][/\ logged_in => logged_in'
       /\ \A t \in Tasks :
            ret'[t].op = "logout" =>
                /\ logged_in' = logged_in
                /\ session_id' = session_id
                /\ id' = IF Idle(t) THEN id + 1 ELSE id]_vars

\* A logout the device accepted has returned True, and the client still
\* holds the token and still reports logged_in.
C20_Witness ==
    /\ ret[1].op = "logout"
    /\ ret[1].kind = "return"
    /\ ret[1].val = "True"
    /\ logged_in
    /\ session_id \in Tokens
    /\ id = wire[Len(wire) - 1].id + 1

\* The challenge of the login attempt of its own task that request i belongs
\* to (0: none).
OwnChallenge(i) ==
    LET before == {j \in 1..i : wire[j].by = wire[i].by /\ IsChallenge(wire[j])}
    IN  IF before = {} THEN 0 ELSE CHOOSE j \in before : \A k \in before : k <= j

\* C19: with operations overlapping, every hash-phase request carries the
\* token of the answer to its own task's challenge, and its digest is the one
\* of the realm and random of that same answer.
C19_HashPhaseConsistent ==
    \A i \in Sent :
        IsHashPhase(wire[i]) =>
            LET c == OwnChallenge(i)
            IN  /\ c # 0
                /\ wire[c].reply \in Tokens
                /\ wire[i].session = wire[c].reply
                /\ wire[i].password = ExpectedPassHash(wire[c].reply)

\* Between a task's challenge and its hash-phase request another task has
\* posted its challenge, stored another token and posted its own hash-phase
\* request.
C19_Witness ==
    \E i \in Sent :
        /\ IsHashPhase(wire[i])
        /\ \E j, k \in OwnChallenge(i) + 1 .. i - 1 :
              /\ j < k
              /\ IsChallenge(wire[j]) /\ IsHashPhase(wire[k])
              /\ wire[j].by # wire[i].by /\ wire[k].by = wire[j].by
              /\ wire[k].session \in Tokens \ {wire[i].session}

\* The request its task sent before request i in the same login attempt.
PreviousOwn(i) ==
    LET c == OwnChallenge(i)
        before == IF c = 0 THEN {} ELSE {j \in c..(i - 1) : wire[j].by = wire[i].by}
    IN  IF before = {} THEN 0 ELSE CHOOSE j \in before : \A k \in before : k <= j

\* A request other than a login request that carries no token, or a token
\* other than the one its own task's login obtained.
ForeignToken(i) ==
    /\ wire[i].method # "global.login"
    /\ OwnChallenge(i) # 0
    /\ wire[i].session # wire[OwnChallenge(i)].reply

\* A request whose id is not 1 more than the id of the request its task sent
\* before it in the same login attempt.
BrokenId(i) ==
    /\ PreviousOwn(i) # 0
    /\ wire[i].id # wire[PreviousOwn(i)].id + 1

\* C13: with operations that log in overlapping on one client, requests with
\* a foreign token and requests with a repeated id are sent (C13_Witness),
\* and each of them has a request of another task between it and the
\* challenge of its own login: the corruption comes from the overlap.
C13_OverlapCorrupts ==
    \A i \in Sent :
        ForeignToken(i) \/ BrokenId(i) =>
            \E j \in (OwnChallenge(i) + 1)..(i - 1) : wire[j].by # wire[i].by

\* Two get_coaxial_control_io_status calls overlap: a getStatus request
\* carries the token the other call's login obtained, not its own, and a
\* request repeats the id of the request its task sent before it.
C13_Witness ==
    /\ \A t \in OverlapTasks : ret[t].op = "get_coaxial_control_io_status"
    /\ \E i \in Sent :
          /\ wire[i].method = "CoaxialControlIO.getStatus"
          /\ ForeignToken(i)
          /\ wire[i].session \in Tokens
    /\ \E k \in Sent : BrokenId(k) /\ wire[k].id = wire[PreviousOwn(k)].id

====
